---- MODULE Spec2Model ----
(***************************************************************************)
(* Diffuse-lighting ray tracer (src/index.js): Vector3, Ray, Sphere,       *)
(* Plane, Light, Scene.trace, Renderer.render and the page wiring          *)
(* (sliders, render button, reset button).                                 *)
(*                                                                         *)
(* Numbers.  JavaScript numbers are modelled as fixed-point integers with  *)
(* three decimal places: the integer n stands for the real n / Scale, so   *)
(* the tolerance 0.001 of the source is the integer 1.  Products and       *)
(* quotients are rounded to the nearest unit, square roots are rounded     *)
(* down.  A quotient by zero is the value NaN or +-Infinity of JavaScript  *)
(* and is modelled by what its comparisons yield.                          *)
(***************************************************************************)
EXTENDS Integers, Sequences, FiniteSets, TLC

\* One unit of resolution is 0.001 = 1 / 10^3.
Scale == 10 * 10 * 10

(***************************************************************************)
(* Fixed-point arithmetic                                                  *)
(***************************************************************************)
Abs(n) == IF n < 0 THEN -n ELSE n
Max(a, b) == IF a > b THEN a ELSE b
Min(a, b) == IF a < b THEN a ELSE b

\* n / d rounded to the nearest integer (d > 0), without forming 2 * n.
RoundDiv(n, d) == (n \div d) + (IF 2 * (n % d) >= d THEN 1 ELSE 0)

\* The product x * y of two fixed-point numbers.  x is split into its whole
\* and fractional part so that no intermediate value leaves TLC's integers.
Mul(x, y) == (x \div Scale) * y + RoundDiv((x % Scale) * y, Scale)

\* The quotient x / y of two fixed-point numbers, y # 0.
Quot(x, y) == IF y > 0 THEN RoundDiv(x * Scale, y) ELSE RoundDiv((-x) * Scale, -y)

\* n * Scale \div d for 0 < d, without forming n * Scale.
DivScaled(n, d) == (n \div d) * Scale + ((n % d) * Scale) \div d

\* A number that is at least the square root of n * Scale, and at most eight
\* times as large.
SqrtGuess(n) ==
    IF n < 4 THEN 64
    ELSE IF n < 64 THEN 256
    ELSE IF n < 1024 THEN 1024
    ELSE IF n < 16384 THEN 4096
    ELSE IF n < 262144 THEN 16384
    ELSE IF n < 4194304 THEN 65536
    ELSE IF n < 67108864 THEN 262144
    ELSE 1500000

\* Newton's iteration for the integer square root of n * Scale, from g above it.
RECURSIVE SqrtIter(_, _)
SqrtIter(n, g) ==
    LET h == (g + DivScaled(n, g)) \div 2
    IN  IF h >= g THEN g ELSE SqrtIter(n, h)

\* Math.sqrt of a fixed-point number n >= 0: the largest s with
\* (s / Scale)^2 <= n / Scale.
Sqrt(n) == IF n = 0 THEN 0 ELSE SqrtIter(n, SqrtGuess(n))

(***************************************************************************)
(* class Vector3                                                           *)
(***************************************************************************)
Vector3(x, y, z) == [x |-> x, y |-> y, z |-> z]

add(u, v) == Vector3(u.x + v.x, u.y + v.y, u.z + v.z)

subtract(u, v) == Vector3(u.x - v.x, u.y - v.y, u.z - v.z)

multiply(v, scalar) == Vector3(Mul(v.x, scalar), Mul(v.y, scalar), Mul(v.z, scalar))

\* x*x' + y*y' + z*z': the three products are summed exactly and rounded once.
dot(u, v) ==
    (u.x \div Scale) * v.x + (u.y \div Scale) * v.y + (u.z \div Scale) * v.z
    + RoundDiv((u.x % Scale) * v.x + (u.y % Scale) * v.y + (u.z % Scale) * v.z, Scale)

length(v) == Sqrt(dot(v, v))

\* normalize() once len = this.length() is known.
normalizeBy(v, len) ==
    IF len = 0 THEN Vector3(0, 0, 0)
    ELSE Vector3(Quot(v.x, len), Quot(v.y, len), Quot(v.z, len))

normalize(v) == normalizeBy(v, length(v))

distanceTo(u, v) == length(subtract(u, v))

(***************************************************************************)
(* class Ray                                                               *)
(***************************************************************************)
Ray(origin, direction) == [origin |-> origin, direction |-> normalize(direction)]

pointAt(ray, t) == add(ray.origin, multiply(ray.direction, t))

(***************************************************************************)
(* Scene objects.  intersect returns null (no hit) or a distance; the      *)
(* model writes null as <<>> and the distance t as <<t>>.                  *)
(***************************************************************************)
Null == <<>>
Hit(t) == <<t>>
Dist(h) == h[1]

Sphere(position, radius, color) ==
    [kind |-> "Sphere", position |-> position, radius |-> radius,
     normal |-> Vector3(0, 0, 0), color |-> color]

Plane(position, normal, color) ==
    [kind |-> "Plane", position |-> position, radius |-> 0,
     normal |-> normalize(normal), color |-> color]

Light(position, intensity) == [position |-> position, intensity |-> intensity]

\* The tolerance 0.001 of both intersect methods.
Epsilon == 1

\* The coefficients of the quadratic a t^2 + b t + c = 0 of Sphere.intersect.
\* discriminant = b * b - 4 * a * c
Discriminant(a, b, c) ==
    [a |-> a, b |-> b, c |-> c, discriminant |-> Mul(b, b) - 4 * Mul(a, c)]

\* a, b and c from oc = ray.origin - this.position.
Coefficients(oc, direction, radius) ==
    Discriminant(dot(direction, direction), 2 * dot(oc, direction),
                 dot(oc, oc) - Mul(radius, radius))

Quadratic(s, ray) == Coefficients(subtract(ray.origin, s.position), ray.direction, s.radius)

\* t = (-b - sqrt(discriminant)) / (2a) and t2 = (-b + sqrt(discriminant)) / (2a),
\* for a # 0 and discriminant >= 0.
NearRoot(q) == Quot(-q.b - Sqrt(q.discriminant), 2 * q.a)
FarRoot(q) == Quot(-q.b + Sqrt(q.discriminant), 2 * q.a)

RootChoiceNearOnly(q) ==
    IF q.discriminant < 0 THEN Null
    ELSE IF q.a = 0 THEN Null
    ELSE IF NearRoot(q) > Epsilon THEN Hit(NearRoot(q))
    ELSE Null

\* The returns of Sphere.intersect, given the quadratic q.  A ray whose
\* direction is the zero vector has a = 0 and b = 0, so discriminant = 0 and both
\* quotients are 0 / 0 = NaN; NaN > 0.001 is false twice and the method returns
\* null.
RootChoice(q) ==
    IF q.discriminant < 0 THEN Null
    ELSE IF q.a = 0 THEN Null
    ELSE IF NearRoot(q) > Epsilon THEN Hit(NearRoot(q))
    ELSE IF FarRoot(q) > Epsilon THEN Hit(FarRoot(q))
    ELSE Null

\* Sphere.intersect.
SphereIntersect(s, ray) == RootChoice(Quadratic(s, ray))

SphereNormalAt(s, point) == normalize(subtract(point, s.position))

\* Plane.intersect.
\* return t >= 0.001 ? t : null
PlaneHit(t) == IF t >= Epsilon THEN Hit(t) ELSE Null

\* The body of Plane.intersect once denom = normal . direction is known.
PlaneIntersectBy(p, ray, denom) ==
    IF Abs(denom) > Epsilon
    THEN PlaneHit(Quot(dot(subtract(p.position, ray.origin), p.normal), denom))
    ELSE Null

PlaneIntersect(p, ray) == PlaneIntersectBy(p, ray, dot(p.normal, ray.direction))

PlaneNormalAt(p, point) == p.normal

\* Dynamic dispatch on the object's class.
intersect(object, ray) ==
    IF object.kind = "Sphere" THEN SphereIntersect(object, ray)
    ELSE PlaneIntersect(object, ray)

normalAt(object, point) ==
    IF object.kind = "Sphere" THEN SphereNormalAt(object, point)
    ELSE PlaneNormalAt(object, point)

(***************************************************************************)
(* Scene.trace                                                             *)
(*                                                                         *)
(* Vector3 objects are mutable and shared by reference.  The model names   *)
(* the cells trace can hold a reference to: BackgroundCell (the scene's     *)
(* background vector), ObjectCell(i) (the colour vector of the i-th        *)
(* object) and ColorCell (a vector created inside the call).               *)
(***************************************************************************)
NoCell == [cell |-> "none", index |-> 0]
ColorCell == [cell |-> "color", index |-> 0]
BackgroundCell == [cell |-> "backgroundColor", index |-> 0]
ObjectCell(i) == [cell |-> "objects", index |-> i]

\* The offset 0.001 of the shadow ray's origin along the normal.
ShadowBias == 1

\* The ambient factor 0.2.
Ambient == 200

DepthExceededStrict(depth, maxDepth) == depth > maxDepth

\* if (depth >= maxDepth) return this.backgroundColor
DepthExceeded(depth, maxDepth) == depth >= maxDepth

CloserOrEqual(t, closestIntersection) == t <= closestIntersection

\* t < closestIntersection
Closer(t, closestIntersection) == t < closestIntersection

\* The loop over this.objects that finds the closest intersection, from the
\* i-th object on; closest is [t |-> null or the distance, object |-> index or 0].
\* if (t !== null && (closestIntersection === null || t < closestIntersection))
\* { closestIntersection = t; closestObject = object }, for the i-th object.
ClosestStep(t, i, closest) ==
    IF t # Null /\ (closest.t = Null \/ Closer(Dist(t), Dist(closest.t)))
    THEN [t |-> t, object |-> i]
    ELSE closest

RECURSIVE ClosestLoop(_, _, _, _)
ClosestLoop(objs, ray, i, closest) ==
    IF i > Len(objs) THEN closest
    ELSE ClosestLoop(objs, ray, i + 1, ClosestStep(intersect(objs[i], ray), i, closest))

\* shadowT < light.position.distanceTo(intersectionPoint)
Occludes(shadowT, lightDistance) == shadowT < lightDistance

\* The loop over this.objects that looks for an occluder of shadowRay, from the
\* i-th object on; it stops at the first one found.
\* shadowT !== null && shadowT < light.position.distanceTo(intersectionPoint)
Blocks(shadowT, lightDistance) == shadowT # Null /\ Occludes(Dist(shadowT), lightDistance)

RECURSIVE ShadowLoop(_, _, _, _)
ShadowLoop(objs, shadowRay, lightDistance, i) ==
    IF i > Len(objs) THEN FALSE
    ELSE IF Blocks(intersect(objs[i], shadowRay), lightDistance) THEN TRUE
    ELSE ShadowLoop(objs, shadowRay, lightDistance, i + 1)

\* The quantities one iteration of the loop over this.lights computes.
LightSampleToward(light, intersectionPoint, normal, lightDirection) ==
    [lightDirection |-> lightDirection,
     shadowRay |-> Ray(add(intersectionPoint, multiply(normal, ShadowBias)), lightDirection),
     lightDistance |-> distanceTo(light.position, intersectionPoint)]

LightSample(objs, light, intersectionPoint, normal) ==
    LightSampleToward(light, intersectionPoint, normal,
                      normalize(subtract(light.position, intersectionPoint)))

\* Math.max(0, normal.dot(lightDirection))
Diffuse(normal, lightDirection) == Max(0, dot(normal, lightDirection))

AmbientIfLit(objectColor, inShadow) ==
    IF inShadow THEN Vector3(0, 0, 0) ELSE multiply(objectColor, Ambient)

\* The ambient contribution of one light: added whether or not it is in shadow.
AmbientColor(objectColor, inShadow) == multiply(objectColor, Ambient)

\* One iteration of the loop over this.lights: color after the iteration.
\* if (!inShadow) color = color.add(diffuse); color = color.add(ambient)
Shaded(light, objectColor, normal, color, lightDirection, inShadow) ==
    add(IF inShadow THEN color
        ELSE add(color, multiply(objectColor,
                                 Mul(Diffuse(normal, lightDirection), light.intensity))),
        AmbientColor(objectColor, inShadow))

\* The iteration once the light sample ls is known.
ShadeSample(objs, light, objectColor, normal, color, ls) ==
    Shaded(light, objectColor, normal, color, ls.lightDirection,
           ShadowLoop(objs, ls.shadowRay, ls.lightDistance, 1))

ShadeLight(objs, light, objectColor, intersectionPoint, normal, color) ==
    ShadeSample(objs, light, objectColor, normal, color,
                LightSample(objs, light, intersectionPoint, normal))

RECURSIVE LightLoop(_, _, _, _, _, _, _)
LightLoop(objs, lts, objectColor, intersectionPoint, normal, i, color) ==
    IF i > Len(lts) THEN color
    ELSE LightLoop(objs, lts, objectColor, intersectionPoint, normal, i + 1,
                   ShadeLight(objs, lts[i], objectColor, intersectionPoint, normal, color))

ClampUpperOnly(c) == Min(Scale, c)

\* Math.min(1, Math.max(0, c)) on each channel.
ClampChannel(c) == Min(Scale, Max(0, c))
Clamp(v) == Vector3(ClampChannel(v.x), ClampChannel(v.y), ClampChannel(v.z))

SharedColorCell(closestObject) == ObjectCell(closestObject)

\* let color = new Vector3(0, 0, 0): the cell the local color is bound to
\* before the loop over the lights.
NewColorCell(closestObject) == ColorCell

\* The vector a cell holds.
Deref(cell, objs, bg) ==
    IF cell.cell = "color" THEN Vector3(0, 0, 0)
    ELSE IF cell.cell = "backgroundColor" THEN bg
    ELSE objs[cell.index].color

\* One call of trace(ray, depth, maxDepth) on the scene (objs, lts, bg):
\*   returned    the cell of the vector returned
\*   value       that vector's value at the return
\*   hit         the index of closestObject, 0 when trace returns the background
\*   t           closestIntersection
\*   unclamped   the value of color before the three clamping assignments
\*   clamped     the cell the clamping assignments write, NoCell when they do not run
\* return this.backgroundColor
Miss(bg) ==
    [returned |-> BackgroundCell, value |-> bg, hit |-> 0, t |-> Null,
     unclamped |-> bg, clamped |-> NoCell]

\* The clamping assignments and return color, with color bound to cell.
Clamped(closest, cell, color) ==
    [returned |-> cell, value |-> Clamp(color), hit |-> closest.object,
     t |-> closest.t, unclamped |-> color, clamped |-> cell]

\* The shading of closestObject at intersectionPoint.  color = color.add(...)
\* rebinds color to a new vector in every iteration of the loop over the lights.
ShadeAt(objs, lts, bg, closest, closestObject, intersectionPoint) ==
    Clamped(closest,
            IF Len(lts) = 0 THEN NewColorCell(closest.object) ELSE ColorCell,
            LightLoop(objs, lts, closestObject.color, intersectionPoint,
                      normalAt(closestObject, intersectionPoint), 1,
                      Deref(NewColorCell(closest.object), objs, bg)))

\* trace after the loop over the objects has found closest.
AfterSearch(objs, lts, bg, ray, closest) ==
    IF closest.t = Null THEN Miss(bg)
    ELSE ShadeAt(objs, lts, bg, closest, objs[closest.object], pointAt(ray, Dist(closest.t)))

trace(objs, lts, bg, ray, depth, maxDepth) ==
    IF DepthExceeded(depth, maxDepth) THEN Miss(bg)
    ELSE AfterSearch(objs, lts, bg, ray, ClosestLoop(objs, ray, 1, [t |-> Null, object |-> 0]))

\* The scene's vectors after a call of trace with result r: the clamping
\* assignments write the vector in the cell r.clamped.
ObjectsAfter(objs, r) ==
    IF r.clamped.cell = "objects" THEN [objs EXCEPT ![r.clamped.index].color = r.value]
    ELSE objs

BackgroundAfter(bg, r) == IF r.clamped.cell = "backgroundColor" THEN r.value ELSE bg

(***************************************************************************)
(* State                                                                   *)
(***************************************************************************)
VARIABLES
    objects,          \* scene.objects: the sequence of Sphere / Plane records
    lights,           \* scene.lights: the sequence of Light records
    backgroundColor,  \* scene.backgroundColor
    ray,              \* the ray object of the last call of trace, after the call
    traced,           \* the last call of trace: its arguments and what it did
    pc,               \* where the running script is: "idle" outside render, "loop"
                      \* and "put" in it, "label" after it, "done" at the script's end
    x, y,             \* the loop variables of Renderer.render
    imageData,        \* renderer.imageData.data, a Uint8ClampedArray
    canvas,           \* the pixels last put on the canvas by putImageData
    rgb,              \* the values r, g, b render computed for the last pixel,
                      \* and the index of the object trace shaded for it (0: none)
    writes,           \* for each byte of imageData, the writes of the running pass
    passLight,        \* scene.lights as it was when the running pass started
    frameLight,       \* scene.lights as the frame on the canvas was rendered with
    presented,        \* whether putImageData has been called
    sliders,          \* the value strings of the four range inputs
    valueLabels,      \* the textContent of the four slider value labels
    infoLabels,       \* the textContent of .scene-value [0] and [3]
    handler           \* the page script that is running, "none" when none is

sceneVars == <<objects, lights, backgroundColor>>
traceVars == <<ray, traced>>
renderVars == <<pc, x, y, imageData, canvas, rgb, writes, passLight, frameLight, presented>>
pageVars == <<sliders, valueLabels, infoLabels, handler>>
vars == <<sceneVars, traceVars, renderVars, pageVars>>

(***************************************************************************)
(* class Renderer                                                          *)
(***************************************************************************)
\* canvas.width and canvas.height
Width == 2
Height == 2

Bytes == 0 .. (4 * Width * Height - 1)

cameraPosition == Vector3(0, 2 * Scale, 10 * Scale)

\* The camera ray through pixel (px, py) of a width x height surface.
PixelRay(px, py, width, height) ==
    LET nx == 2 * Quot(px * Scale, width * Scale) - Scale
        ny == Scale - 2 * Quot(py * Scale, height * Scale)
        rayDirection == normalize(Vector3(nx, ny, -Scale))
    IN  Ray(cameraPosition, rayDirection)

\* Math.floor(channel * 255)
ToByte(channel) == (channel * 255) \div Scale

PixelIndexTransposed(px, py, width) == (px * width + py) * 4

\* index = (y * this.width + x) * 4
PixelIndex(px, py, width) == (py * width + px) * 4

\* Storing the number v in an element of a Uint8ClampedArray.
Uint8Clamped(v) == Min(255, Max(0, v))

StoreAdding(data, i, v) ==
    IF i \in DOMAIN data THEN [data EXCEPT ![i] = Uint8Clamped(@ + v)] ELSE data

\* data[i] = v on the Uint8ClampedArray data: the element keeps the stored
\* value only; an index outside the array is ignored.
Store(data, i, v) == IF i \in DOMAIN data THEN [data EXCEPT ![i] = Uint8Clamped(v)] ELSE data

Logged(log, i, who) == IF i \in DOMAIN log THEN [log EXCEPT ![i] = Append(@, who)] ELSE log

NoTrace ==
    [returned |-> NoCell, value |-> Vector3(0, 0, 0), hit |-> 0, t |-> Null,
     unclamped |-> Vector3(0, 0, 0), clamped |-> NoCell,
     depth |-> 0, maxDepth |-> 0, called |-> FALSE, ray |-> Ray(cameraPosition, Vector3(0, 0, 0))]

Call(r, depth, maxDepth, rayGiven) ==
    [returned |-> r.returned, value |-> r.value, hit |-> r.hit, t |-> r.t,
     unclamped |-> r.unclamped, clamped |-> r.clamped,
     depth |-> depth, maxDepth |-> maxDepth, called |-> TRUE, ray |-> rayGiven]

\* this.scene.trace(ray) applied to the current scene: the state it leaves.
TraceStep(r, depth, maxDepth) ==
    LET res == trace(objects, lights, backgroundColor, r, depth, maxDepth)
    IN  /\ ray' = r
        /\ traced' = Call(res, depth, maxDepth, r)
        /\ objects' = ObjectsAfter(objects, traced')
        /\ backgroundColor' = BackgroundAfter(backgroundColor, traced')
        /\ lights' = lights

\* render() is entered: the loops start at y = 0, x = 0.
RenderEnter ==
    /\ pc' = IF Height > 0 /\ Width > 0 THEN "loop" ELSE "put"
    /\ x' = 0
    /\ y' = 0
    /\ writes' = [i \in Bytes |-> <<>>]
    /\ passLight' = lights'
    /\ UNCHANGED <<imageData, canvas, rgb, frameLight, presented>>

\* One iteration of the inner loop of render(): pixel (x, y).
RenderPixel ==
    /\ pc = "loop"
    /\ TraceStep(PixelRay(x, y, Width, Height), 0, 3)
    /\ LET color == traced'.value
           r == ToByte(color.x)
           g == ToByte(color.y)
           b == ToByte(color.z)
           index == PixelIndex(x, y, Width)
       IN  /\ rgb' = [hit |-> traced'.hit, r |-> r, g |-> g, b |-> b]
           /\ imageData' = Store(Store(Store(Store(imageData, index, r), index + 1, g),
                                       index + 2, b), index + 3, 255)
           /\ writes' = Logged(Logged(Logged(Logged(writes, index, <<x, y, 0>>),
                                             index + 1, <<x, y, 1>>),
                                      index + 2, <<x, y, 2>>), index + 3, <<x, y, 3>>)
    /\ IF x + 1 < Width THEN x' = x + 1 /\ y' = y /\ pc' = "loop"
       ELSE /\ x' = 0
            /\ y' = y + 1
            /\ pc' = IF y + 1 < Height THEN "loop" ELSE "put"
    /\ UNCHANGED <<canvas, passLight, frameLight, presented, pageVars>>

\* this.ctx.putImageData(this.imageData, 0, 0); control returns to the caller.
PutImageData(next) ==
    /\ pc = "put"
    /\ canvas' = imageData
    /\ frameLight' = passLight
    /\ presented' = TRUE
    /\ pc' = next
    /\ UNCHANGED <<x, y, imageData, rgb, writes, passLight>>

(***************************************************************************)
(* The library on its own: a script builds a scene with addObject and      *)
(* addLight from a small catalogue, with a background colour of a small    *)
(* set, and then either calls trace on a ray or renders the scene.         *)
(***************************************************************************)
MaxObjects == 2
MaxLights == 2

\* The sequences of at most n elements of S.
RECURSIVE SeqsUpTo(_, _)
SeqsUpTo(S, n) ==
    IF n = 0 THEN {<<>>}
    ELSE LET shorter == SeqsUpTo(S, n - 1)
         IN  shorter \cup {Append(q, e) : q \in {u \in shorter : Len(u) = n - 1}, e \in S}

Fx(a, b, c) == Vector3(a * 100, b * 100, c * 100)   \* tenths of a unit

\* A sphere straight ahead of the camera, a plane through its nearest point
\* (same distance along the central ray) whose colour leaves [0, 1], and a small
\* sphere between that point and the first light.
ObjectCatalogue ==
    { Sphere(Fx(0, 20, 0), 2 * Scale, Fx(8, 2, 2)),
      Plane(Fx(0, 0, 20), Fx(0, 0, 10), Fx(15, -2, 5)),
      Sphere(Fx(30, 20, 50), Scale, Fx(2, 8, 2)) }

LightCatalogue ==
    { Light(Fx(60, 20, 80), 1500),
      Light(Fx(0, 20, 80), 500) }

BackgroundCatalogue == { Fx(1, 1, 2), Fx(12, -1, 5) }

\* Rays given to trace directly, besides the camera rays of render: the central
\* camera ray, a ray from the centre of the first sphere, a ray with direction
\* zero, a ray at the small sphere, and a ray askew to the axes.
RayArgs ==
    { [origin |-> cameraPosition, direction |-> Fx(0, 0, -10)],
      [origin |-> Fx(0, 20, 0), direction |-> Fx(0, 0, -10)],
      [origin |-> cameraPosition, direction |-> Fx(0, 0, 0)],
      [origin |-> Fx(30, 20, 100), direction |-> Fx(0, 0, -10)],
      [origin |-> cameraPosition, direction |-> Fx(3, -2, -20)] }

\* The arguments (depth, maxDepth) given to trace: the defaults, depth = maxDepth
\* and depth > maxDepth.
DepthArgs == { <<0, 3>>, <<3, 3>>, <<4, 3>> }

NoPage ==
    /\ sliders = <<>>
    /\ valueLabels = <<>>
    /\ infoLabels = <<>>
    /\ handler = "none"

RendererInit ==
    /\ pc = "idle"
    /\ x = 0
    /\ y = 0
    /\ imageData = [i \in Bytes |-> 0]
    /\ canvas = [i \in Bytes |-> 0]
    /\ rgb = [hit |-> 0, r |-> 0, g |-> 0, b |-> 0]
    /\ writes = [i \in Bytes |-> <<>>]
    /\ frameLight = <<>>
    /\ presented = FALSE

LibInit ==
    /\ objects \in SeqsUpTo(ObjectCatalogue, MaxObjects)
    /\ lights \in SeqsUpTo(LightCatalogue, MaxLights)
    /\ backgroundColor \in BackgroundCatalogue
    /\ ray = Ray(cameraPosition, Fx(0, 0, -10))
    /\ traced = NoTrace
    /\ RendererInit
    /\ passLight = lights
    /\ NoPage

\* The script calls scene.trace(new Ray(origin, direction), depth, maxDepth).
TraceCall(origin, direction, depth, maxDepth) ==
    /\ pc = "idle"
    /\ TraceStep(Ray(origin, direction), depth, maxDepth)
    /\ pc' = "done"
    /\ UNCHANGED <<x, y, imageData, canvas, rgb, writes, passLight, frameLight, presented>>
    /\ UNCHANGED pageVars

\* The script calls renderer.render().
RenderCall ==
    /\ pc = "idle"
    /\ UNCHANGED <<sceneVars, traceVars, pageVars>>
    /\ RenderEnter

RenderReturn ==
    /\ PutImageData("done")
    /\ UNCHANGED <<sceneVars, traceVars, pageVars>>

LibNext ==
    \/ \E r \in RayArgs, d \in DepthArgs : TraceCall(r.origin, r.direction, d[1], d[2])
    \/ RenderCall
    \/ RenderPixel
    \/ RenderReturn

LibSpec == LibInit /\ [][LibNext]_vars

(***************************************************************************)
(* The page: the DOMContentLoaded handler builds the scene, the light and  *)
(* the renderer, renders once and wires the sliders and the two buttons.   *)
(* Scripts run to completion: while one runs no event is dispatched.       *)
(***************************************************************************)
PageObjects ==
    << Sphere(Fx(0, 0, 0), 2 * Scale, Fx(8, 2, 2)),
       Sphere(Fx(40, 10, -10), 1500, Fx(2, 8, 2)),
       Sphere(Fx(-40, 10, 0), 1500, Fx(2, 2, 8)),
       Sphere(Fx(0, 50, -50), Scale, Fx(8, 8, 2)),
       Plane(Fx(0, -20, 0), Fx(0, 10, 0), Fx(7, 7, 7)),
       Plane(Fx(0, 0, -100), Fx(0, 0, 10), Fx(5, 5, 8)) >>

\* new Light(new Vector3(2, 5, 2), 1.5)
PageLight == Light(Fx(20, 50, 20), 1500)

SliderIds == {"lightX", "lightY", "lightZ", "lightIntensity"}

\* The values the range inputs take in the model, as their value strings.
SliderValues ==
    [lightX |-> {"2", "-3"}, lightY |-> {"5", "8"}, lightZ |-> {"2", "6"},
     lightIntensity |-> {"1.5", "0.5"}]

\* parseFloat of a value string.
parseFloat(str) ==
    CASE str = "2" -> 2 * Scale
      [] str = "-3" -> -3 * Scale
      [] str = "5" -> 5 * Scale
      [] str = "8" -> 8 * Scale
      [] str = "6" -> 6 * Scale
      [] str = "1.5" -> 1500
      [] str = "0.5" -> 500

\* The string a number becomes when it is assigned to input.value or textContent.
NumberToString(n) ==
    CASE n = 2 * Scale -> "2"
      [] n = 5 * Scale -> "5"
      [] n = 6 * Scale -> "6"
      [] n = 1500 -> "1.5"

\* Number.prototype.toFixed(1).
toFixed1(n) ==
    CASE n = 2 * Scale -> "2.0"
      [] n = -3 * Scale -> "-3.0"
      [] n = 5 * Scale -> "5.0"
      [] n = 8 * Scale -> "8.0"
      [] n = 6 * Scale -> "6.0"

ScriptIdleOrYielded == TRUE

\* Whether the event loop can dispatch an event: no script is running (render()
\* is one synchronous loop and never yields).
ScriptIdle == handler = "none"

\* updateSliderValues(): the four labels show the four slider values.
updateSliderValues == valueLabels' = sliders'

\* The first four statements of renderScene(): the light after them.
LightFromSliders(light, sl) ==
    [position |-> Vector3(parseFloat(sl.lightX), parseFloat(sl.lightY), parseFloat(sl.lightZ)),
     intensity |-> parseFloat(sl.lightIntensity)]

\* renderScene() up to the entry of renderer.render().
renderSceneEnter ==
    /\ lights' = <<LightFromSliders(lights[1], sliders')>>
    /\ UNCHANGED <<objects, backgroundColor, traceVars>>
    /\ RenderEnter

PageInit ==
    /\ objects = PageObjects
    /\ lights = <<PageLight>>
    /\ backgroundColor = Fx(1, 1, 2)
    /\ ray = Ray(cameraPosition, Fx(0, 0, -10))
    /\ traced = NoTrace
    /\ RendererInit
    /\ passLight = lights
    /\ sliders \in [lightX : SliderValues.lightX, lightY : SliderValues.lightY,
                    lightZ : SliderValues.lightZ, lightIntensity : SliderValues.lightIntensity]
    /\ valueLabels = [s \in SliderIds |-> ""]
    /\ infoLabels = [count |-> "", light |-> <<>>]
    /\ handler = "load"

\* The DOMContentLoaded handler from updateSliderValues() to the entry of
\* render() in the first renderScene().
Load ==
    /\ handler = "load"
    /\ pc = "idle"
    /\ UNCHANGED sliders
    /\ updateSliderValues
    /\ renderSceneEnter
    /\ UNCHANGED <<infoLabels, handler>>

PagePut ==
    /\ PutImageData("label")
    /\ UNCHANGED <<sceneVars, traceVars, pageVars>>

\* The rest of the running handler after render() returns: the light label of
\* renderScene(), and in the DOMContentLoaded handler the object count.
HandlerEnd ==
    /\ pc = "label"
    /\ infoLabels' =
         [count |-> IF handler = "load" THEN NumberToString(Len(objects) * Scale) ELSE infoLabels.count,
          light |-> <<toFixed1(lights[1].position.x), toFixed1(lights[1].position.y),
                      toFixed1(lights[1].position.z)>>]
    /\ pc' = "idle"
    /\ handler' = "none"
    /\ UNCHANGED <<sceneVars, traceVars, x, y, imageData, canvas, rgb, writes, passLight,
                   frameLight, presented, sliders, valueLabels>>

LightFromSlidersLive(lts, sl) ==
    <<[position |-> Vector3(parseFloat(sl.lightX), parseFloat(sl.lightY), parseFloat(sl.lightZ)),
       intensity |-> parseFloat(sl.lightIntensity)]>>

\* What an input event of a slider does to the light: nothing.
LightAfterInput(lts, sl) == lts

\* The user moves slider id to value v: its input handler runs.
SliderInput(id, v) ==
    /\ ScriptIdle
    /\ v # sliders[id]
    /\ sliders' = [sliders EXCEPT ![id] = v]
    /\ updateSliderValues
    /\ lights' = LightAfterInput(lights, sliders')
    /\ UNCHANGED <<objects, backgroundColor, traceVars, renderVars, infoLabels, handler>>

\* A click on renderBtn: renderScene().
RenderBtnClick ==
    /\ ScriptIdle
    /\ handler' = "render"
    /\ UNCHANGED <<sliders, valueLabels, infoLabels>>
    /\ renderSceneEnter

\* A click on resetBtn.
ResetBtnClick ==
    /\ ScriptIdle
    /\ handler' = "reset"
    /\ sliders' = [lightX |-> NumberToString(2 * Scale), lightY |-> NumberToString(5 * Scale),
                   lightZ |-> NumberToString(2 * Scale), lightIntensity |-> NumberToString(1500)]
    /\ updateSliderValues
    /\ UNCHANGED infoLabels
    /\ renderSceneEnter

Next ==
    \/ Load
    \/ \E id \in SliderIds : \E v \in SliderValues[id] : SliderInput(id, v)
    \/ RenderBtnClick
    \/ ResetBtnClick
    \/ RenderPixel
    \/ PagePut
    \/ HandlerEnd

Init == PageInit

Spec == Init /\ [][Next]_vars

(***************************************************************************)
(* Properties of Scene.trace and Sphere.intersect, checked under LibSpec.  *)
(***************************************************************************)
\* The last call of trace went past the depth guard.
Searched == traced.called /\ traced.depth < traced.maxDepth

\* The objects the ray of the last call hits.
HitSet == {i \in 1 .. Len(objects) : intersect(objects[i], ray) # Null}

DistOf(i) == Dist(intersect(objects[i], ray))

\* C1: trace shades the primitive whose intersect(ray) distance is the minimum
\* over all primitives of the object list, and among primitives at exactly that
\* minimal distance the one that comes first in the list.
C1_NearestFirst ==
    Searched =>
        IF HitSet = {} THEN traced.hit = 0 /\ traced.t = Null
        ELSE /\ traced.hit \in HitSet
             /\ traced.t = Hit(DistOf(traced.hit))
             /\ \A i \in HitSet : DistOf(traced.hit) <= DistOf(i)
             /\ \A i \in HitSet : i < traced.hit => DistOf(i) > DistOf(traced.hit)

\* Two different primitives at exactly the same minimal distance; the first is shaded.
C1_Witness ==
    /\ Searched
    /\ Len(objects) = 2
    /\ objects[1] # objects[2]
    /\ HitSet = {1, 2}
    /\ DistOf(1) = DistOf(2)
    /\ traced.hit = 1

\* The sum of the vectors f[i], i in 1 .. n.
RECURSIVE SumTo(_, _)
SumTo(f, n) == IF n = 0 THEN Vector3(0, 0, 0) ELSE add(SumTo(f, n - 1), f[n])

HitPoint == pointAt(ray, Dist(traced.t))
HitNormal == normalAt(objects[traced.hit], HitPoint)

\* Some primitive (the hit object included) intersects the shadow ray of light l
\* at a distance strictly less than the distance from the hit point to l.
Occluded(l) ==
    LET ls == LightSample(objects, l, HitPoint, HitNormal)
    IN  \E i \in 1 .. Len(objects) :
            /\ intersect(objects[i], ls.shadowRay) # Null
            /\ Dist(intersect(objects[i], ls.shadowRay)) < ls.lightDistance

DiffuseTerm(l) ==
    LET ls == LightSample(objects, l, HitPoint, HitNormal)
    IN  multiply(objects[traced.hit].color,
                 Mul(Max(0, dot(HitNormal, ls.lightDirection)), l.intensity))

Contribution(l) ==
    add(multiply(objects[traced.hit].color, Ambient),
        IF Occluded(l) THEN Vector3(0, 0, 0) ELSE DiffuseTerm(l))

\* C2: the colour of a hit before clamping is the sum over the lights of the
\* ambient term color * 0.2, added for every light, and of the diffuse term
\* color * max(0, normal . lightDirection) * intensity, added only for a light
\* that no primitive occludes; with no lights it is (0, 0, 0).
C2_ShadingSum ==
    (traced.called /\ traced.hit # 0) =>
        traced.unclamped = SumTo([i \in 1 .. Len(lights) |-> Contribution(lights[i])], Len(lights))

\* A hit lit by two lights, one of them occluded by another sphere and one not.
C2_Witness ==
    /\ traced.called
    /\ traced.hit # 0
    /\ Len(lights) = 2
    /\ Occluded(lights[1])
    /\ ~Occluded(lights[2])
    /\ DiffuseTerm(lights[1]) # Vector3(0, 0, 0)
    /\ DiffuseTerm(lights[2]) # Vector3(0, 0, 0)
    /\ traced.unclamped = add(multiply(objects[traced.hit].color, 2 * Ambient),
                              DiffuseTerm(lights[2]))

InUnit(c) == 0 <= c /\ c <= Scale
InUnitVector(v) == InUnit(v.x) /\ InUnit(v.y) /\ InUnit(v.z)
IsByte(n) == n \in 0 .. 255

\* C3 as stated: for every scene and every ray each channel of the colour trace
\* returns lies in [0, 1], and each R, G, B value render computes lies in [0, 255].
C3_AlwaysInRange ==
    /\ traced.called => InUnitVector(traced.value)
    /\ IsByte(rgb.r) /\ IsByte(rgb.g) /\ IsByte(rgb.b)

\* C3 amended: the colour trace returns for a ray that hits a primitive has its
\* channels in [0, 1], and so has the colour returned for any ray when the
\* background colour has; the R, G, B values render computes for such a pixel
\* lie in [0, 255].
C3_HitInRange ==
    /\ (traced.called /\ (traced.hit # 0 \/ InUnitVector(backgroundColor)))
           => InUnitVector(traced.value)
    /\ (rgb.hit # 0 \/ InUnitVector(backgroundColor))
           => IsByte(rgb.r) /\ IsByte(rgb.g) /\ IsByte(rgb.b)

\* A pixel whose colour left [0, 1] on both sides before clamping.
C3_Witness ==
    /\ pc \in {"loop", "put"}
    /\ traced.called
    /\ traced.hit # 0
    /\ rgb.hit = traced.hit
    /\ traced.unclamped.x > Scale
    /\ traced.unclamped.y < 0
    /\ rgb.r = 255
    /\ rgb.g = 0

\* The last call of trace found no primitive on its ray, or stopped at the guard.
Missed == traced.called /\ (traced.depth >= traced.maxDepth \/ HitSet = {})

PixelBytes(data, px, py) ==
    LET i == (py * Width + px) * 4 IN <<data[i], data[i + 1], data[i + 2], data[i + 3]>>

Pixels == (0 .. Width - 1) \X (0 .. Height - 1)

\* The pass has written the whole buffer.
PassDone == pc = "put"

\* C4 as stated: trace returns exactly the background colour when no primitive
\* is hit or depth >= maxDepth, and rendering a scene with no objects fills every
\* pixel with floor(background channel * 255) for R, G and B.
C4_EmptySceneFloor ==
    /\ Missed => traced.returned = BackgroundCell /\ traced.value = backgroundColor
    /\ (PassDone /\ objects = <<>>) =>
          \A p \in Pixels :
              PixelBytes(imageData, p[1], p[2]) =
                  <<ToByte(backgroundColor.x), ToByte(backgroundColor.y),
                    ToByte(backgroundColor.z), 255>>

\* C4 amended: trace returns exactly the background colour, unshaded and
\* whatever the lights are, when no primitive is hit or depth >= maxDepth;
\* rendering a scene with no objects fills every pixel with
\* floor(background channel * 255) limited to the byte range 0 .. 255, which is
\* floor(background channel * 255) when the background channels lie in [0, 1].
C4_Background ==
    /\ Missed =>
          /\ traced.returned = BackgroundCell
          /\ traced.value = backgroundColor
          /\ traced.hit = 0
          /\ traced.clamped = NoCell
    /\ (PassDone /\ objects = <<>>) =>
          \A p \in Pixels :
              /\ PixelBytes(imageData, p[1], p[2]) =
                    <<Uint8Clamped(ToByte(backgroundColor.x)),
                      Uint8Clamped(ToByte(backgroundColor.y)),
                      Uint8Clamped(ToByte(backgroundColor.z)), 255>>
              /\ InUnitVector(backgroundColor) =>
                    PixelBytes(imageData, p[1], p[2]) =
                        <<ToByte(backgroundColor.x), ToByte(backgroundColor.y),
                          ToByte(backgroundColor.z), 255>>

\* A finished pass over a scene with lights and no objects, the background
\* colour within [0, 1].
C4_Witness ==
    /\ PassDone
    /\ objects = <<>>
    /\ Len(lights) = 2
    /\ InUnitVector(backgroundColor)
    /\ Missed
    /\ traced.value = backgroundColor
    /\ \A p \in Pixels : PixelBytes(imageData, p[1], p[2])[3] = ToByte(backgroundColor.z)

\* C8: trace writes no shared state: a call leaves the object list and every
\* primitive, the light list and every light, backgroundColor and the ray as
\* they were, and the clamping assignments write only a vector created inside
\* the call.
C8_TraceWritesNothing ==
    /\ [](traced.called => traced.clamped \in {NoCell, ColorCell})
    /\ [][/\ objects' = objects
          /\ lights' = lights
          /\ backgroundColor' = backgroundColor
          /\ traced'.called => ray' = traced'.ray]_vars

\* A hit shaded with no lights on an object whose colour lies outside [0, 1]:
\* the colour returned is the (0, 0, 0) created by the call.
C8_Witness ==
    /\ traced.called
    /\ traced.hit # 0
    /\ lights = <<>>
    /\ ~InUnitVector(objects[traced.hit].color)
    /\ traced.returned = ColorCell
    /\ traced.value = Vector3(0, 0, 0)

\* The rays the last call of trace gave to intersect: its own ray and, after a
\* hit, the shadow ray of every light.
RaysCast ==
    {ray} \cup
    (IF traced.called /\ traced.hit # 0
     THEN {LightSample(objects, lights[i], HitPoint, HitNormal).shadowRay : i \in 1 .. Len(lights)}
     ELSE {})

Spheres == {objects[i] : i \in {j \in 1 .. Len(objects) : objects[j].kind = "Sphere"}}

\* a t^2 + b t + c at t.
Residual(q, t) == Mul(Mul(q.a, t), t) + Mul(q.b, t) + q.c

\* What the rounding of t to 0.001 and of the discriminant can change the
\* residual by: |2 a t + b| = sqrt(discriminant) thousandths, and 5 thousandths.
RootTolerance(q) == 5 + Sqrt(q.discriminant) \div Scale

\* The roots of the quadratic, when it has real roots.
Roots(q) == IF q.discriminant < 0 \/ q.a = 0 THEN {} ELSE {NearRoot(q), FarRoot(q)}

\* C9: Sphere.intersect returns none when the discriminant is negative;
\* otherwise the smaller root when it exceeds 0.001, else the larger root when
\* it exceeds 0.001, else none.  So a distance it returns is greater than
\* 0.001, is a root of the quadratic, and is the smallest root above 0.001.
C9_OrderedRoots ==
    \A s \in Spheres : \A r \in RaysCast :
        LET q == Quadratic(s, r)
            res == intersect(s, r)
            valid == {t \in Roots(q) : t > Epsilon}
        IN  /\ q.discriminant < 0 => res = Null
            /\ (res = Null) <=> (valid = {})
            /\ res # Null =>
                  /\ Dist(res) > Epsilon
                  /\ Dist(res) \in Roots(q)
                  /\ \A t \in valid : Dist(res) <= t
                  /\ Abs(Residual(q, Dist(res))) <= RootTolerance(q)
            /\ Roots(q) # {} =>
                  /\ NearRoot(q) <= FarRoot(q)
                  /\ NearRoot(q) > Epsilon => res = Hit(NearRoot(q))
                  /\ (NearRoot(q) <= Epsilon /\ FarRoot(q) > Epsilon) => res = Hit(FarRoot(q))

\* A ray from inside a sphere: the smaller root is behind the origin and the
\* larger root is the distance returned and shaded.
C9_Witness ==
    /\ Searched
    /\ traced.hit # 0
    /\ objects[traced.hit].kind = "Sphere"
    /\ LET q == Quadratic(objects[traced.hit], ray)
       IN  /\ q.discriminant > 0
           /\ NearRoot(q) < 0
           /\ FarRoot(q) > Epsilon
           /\ traced.t = Hit(FarRoot(q))

(***************************************************************************)
(* Properties of Renderer.render and of the page wiring, checked under     *)
(* Spec.                                                                   *)
(***************************************************************************)
\* The number of pixels the running (or last) pass has finished, in row order.
PixelsDone ==
    IF pc = "loop" THEN y * Width + x
    ELSE IF pc = "put" \/ presented THEN Width * Height
    ELSE 0

\* C5: a pass of render writes, for every pixel (x, y), exactly the four bytes
\* at offsets (y*W + x)*4 .. (y*W + x)*4 + 3, in R, G, B, A order with A = 255;
\* the slots of distinct pixels are disjoint, each slot is written once, and
\* when the pass ends all 4*W*H bytes are written and every alpha byte is 255.
C5_WriteOnceSlots ==
    /\ \A i \in Bytes :
          /\ Len(writes[i]) <= 1
          /\ writes[i] # <<>> =>
                LET w == writes[i][1]
                IN  /\ <<w[1], w[2]>> \in Pixels
                    /\ w[3] \in 0 .. 3
                    /\ i = (w[2] * Width + w[1]) * 4 + w[3]
    /\ \A p \in Pixels : \A k \in 0 .. 3 :
          LET n == p[2] * Width + p[1]
          IN  writes[4 * n + k] = IF n < PixelsDone THEN << <<p[1], p[2], k>> >> ELSE <<>>
    /\ PassDone =>
          \A p \in Pixels :
              /\ PixelBytes(imageData, p[1], p[2])[4] = 255
              /\ \A k \in 0 .. 3 : Len(writes[(p[2] * Width + p[1]) * 4 + k]) = 1
    /\ pc = "loop" =>
          LET n == y * Width + x - 1
          IN  n >= 0 =>
                /\ imageData[4 * n] = Uint8Clamped(rgb.r)
                /\ imageData[4 * n + 1] = Uint8Clamped(rgb.g)
                /\ imageData[4 * n + 2] = Uint8Clamped(rgb.b)
                /\ imageData[4 * n + 3] = 255

\* The end of a pass: every byte written once, the pixels not all alike.
C5_Witness ==
    /\ PassDone
    /\ \A i \in Bytes : Len(writes[i]) = 1
    /\ \E p, q \in Pixels : PixelBytes(imageData, p[1], p[2]) # PixelBytes(imageData, q[1], q[2])

\* C6: calling render twice with no mutation of the scene or the light between
\* the calls produces byte-identical buffers: at the end of a pass that ran with
\* the lights the frame on the canvas was rendered with, the buffer equals that
\* frame.
C6_RenderIdempotent ==
    (PassDone /\ presented /\ passLight = frameLight) => imageData = canvas

\* The end of a second pass with the light of the first.
C6_Witness ==
    /\ PassDone
    /\ presented
    /\ passLight = frameLight
    /\ handler = "render"
    /\ imageData = canvas
    /\ \E i \in Bytes : canvas[i] \notin {0, 255}

\* C7: no render pass observes a light mutation mid-frame: from the first pixel
\* to the last the lights are those in effect when the pass started, and a step
\* that changes a light starts from a state in which no pass is running.
C7_NoMidFrameMutation ==
    /\ [](pc \in {"loop", "put"} => lights = passLight)
    /\ [][lights' # lights => pc \notin {"loop", "put"}]_vars

\* In the middle of a pass rendered with a light the sliders moved.
C7_Witness ==
    /\ pc = "loop"
    /\ y * Width + x > 0
    /\ handler = "render"
    /\ lights # <<PageLight>>
    /\ lights = passLight
    /\ presented

\* The frame render produces for the scene (objs, lts, bg).
FrameOf(objs, lts, bg) ==
    [i \in Bytes |->
        LET n == i \div 4
            c == trace(objs, lts, bg, PixelRay(n % Width, n \div Width, Width, Height), 0, 3).value
        IN  IF i % 4 = 0 THEN Uint8Clamped(ToByte(c.x))
            ELSE IF i % 4 = 1 THEN Uint8Clamped(ToByte(c.y))
            ELSE IF i % 4 = 2 THEN Uint8Clamped(ToByte(c.z))
            ELSE 255]

\* C10: the light is mutated only inside renderScene, immediately before
\* render(): whenever no script runs, the frame on the canvas was rendered with
\* exactly the light's current position and intensity; a slider input event
\* alone changes neither the light nor the frame; after a reset click the light
\* is at (2, 5, 2) with intensity 1.5 and the frame is re-rendered with it.
C10_FrameMatchesLight ==
    /\ [](handler = "none" =>
            /\ presented
            /\ frameLight = lights
            /\ canvas = FrameOf(objects, lights, backgroundColor))
    /\ [](handler = "reset" =>
            /\ lights = <<PageLight>>
            /\ pc = "label" => frameLight = <<PageLight>>
                               /\ canvas = FrameOf(objects, <<PageLight>>, backgroundColor))
    /\ [][(handler = "none" /\ handler' = "none") =>
            lights' = lights /\ canvas' = canvas]_vars
    /\ [][lights' # lights => pc' = "loop" /\ passLight' = lights']_vars

\* No script runs, the frame shows a light other than the initial one, and a
\* slider has been moved since.
C10_Witness ==
    /\ handler = "none"
    /\ presented
    /\ lights # <<PageLight>>
    /\ frameLight = lights
    /\ LightFromSliders(lights[1], sliders) # lights[1]
    /\ valueLabels = sliders

====
